---- MODULE Spec2Model ----
(***************************************************************************)
(* A model of cbindex (src/index.go): a read-only lookup layer over a CSV  *)
(* data file, with an in-memory prefix index, a pool of reusable file      *)
(* handles guarded by an admission counter, and two scans (exact match and *)
(* partial match).                                                         *)
(*                                                                         *)
(* Strings are sequences of one-character strings, so that slicing         *)
(* (s[:n]), strings.ToLower and strings.Contains are computed, not         *)
(* assumed.  A data file is the sequence of its CSV records; a file        *)
(* position is the number of records before it.                            *)
(***************************************************************************)
EXTENDS Integers, Sequences, FiniteSets, Bags, TLC

\* ------------------------------------------------------------------------
\* Bounds of the model
\* ------------------------------------------------------------------------
MaxRecords == 2      \* records in a data file (wide-data specification)
MaxKeyLength == 3    \* largest IndexKeyLength configured
MaxOffset == 1       \* largest offset written in an index file (wide data)
MaxLimitArg == 1     \* largest `limit` argument of GetRowsByPartialKey
MaxHandleLimit == 1  \* largest ConcurrentHandleLimit configured
MaxWarmUpCount == 3  \* largest WarmUpCount configured
NumCallers == 2      \* goroutines of the concurrent specification
MaxIdle == 1         \* idle handles beyond which pool.Get does not open another
MaxIndexRows == 3    \* rows in an index file (index-construction specification)

\* ------------------------------------------------------------------------
\* Strings
\* ------------------------------------------------------------------------
S_cat == <<"c", "a", "t">>
S_cats == <<"c", "a", "t", "s">>
S_bat == <<"b", "a", "t">>
S_ca == <<"c", "a">>
S_CAT == <<"C", "A", "T">>
S_at == <<"a", "t">>
S_tab == <<"t", "a", "b">>

\* unicode.ToLower on the characters of the model's alphabet
ToLowerChar(ch) ==
    CASE ch = "A" -> "a"
      [] ch = "B" -> "b"
      [] ch = "C" -> "c"
      [] ch = "S" -> "s"
      [] ch = "T" -> "t"
      [] OTHER -> ch

\* strings.ToLower
ToLower(s) == [i \in 1..Len(s) |-> ToLowerChar(s[i])]

\* strings.Contains(s, substr)
Contains(s, substr) ==
    \E i \in 0..(Len(s) - Len(substr)) : SubSeq(s, i + 1, i + Len(substr)) = substr

\* The Go slice expression s[:n], for 0 <= n <= len(s)
Slice(s, n) == SubSeq(s, 1, n)

\* ------------------------------------------------------------------------
\* strconv.ParseInt(s, 10, 64): an optional sign and at least one decimal
\* digit.  The strings of the model are too short to leave the int64 range.
\* ------------------------------------------------------------------------
Digits == {"0", "1", "2", "3", "4", "5", "6", "7", "8", "9"}

DigitVal(ch) ==
    CASE ch = "0" -> 0 [] ch = "1" -> 1 [] ch = "2" -> 2 [] ch = "3" -> 3
      [] ch = "4" -> 4 [] ch = "5" -> 5 [] ch = "6" -> 6 [] ch = "7" -> 7
      [] ch = "8" -> 8 [] ch = "9" -> 9

Unsigned(s) == IF Len(s) > 0 /\ s[1] \in {"+", "-"} THEN Tail(s) ELSE s

ParseIntOk(s) == Len(Unsigned(s)) > 0 /\ \A i \in 1..Len(Unsigned(s)) : Unsigned(s)[i] \in Digits

RECURSIVE DecimalValue(_)
DecimalValue(s) ==
    IF Len(s) = 0 THEN 0
    ELSE 10 * DecimalValue(SubSeq(s, 1, Len(s) - 1)) + DigitVal(s[Len(s)])

ParseIntValue(s) ==
    IF Len(s) > 0 /\ s[1] = "-" THEN 0 - DecimalValue(Unsigned(s)) ELSE DecimalValue(Unsigned(s))

\* ------------------------------------------------------------------------
\* NewFileIndex: the index map built from the rows of the index file.
\* A map is a function whose domain is the set of its keys.
\* ------------------------------------------------------------------------
EmptyMap == [k \in {} |-> 0]

MapPut(m, k, v) == [x \in (DOMAIN m) \cup {k} |-> IF x = k THEN v ELSE m[x]]

\* Mutant of IndexRow: a prefix that is in the map already keeps its offset.
IndexRowFirstWins(m, line) ==
    IF ParseIntOk(line[2]) /\ line[1] \notin DOMAIN m
    THEN MapPut(m, line[1], ParseIntValue(line[2])) ELSE m

\* One iteration of the loop body: a row whose offset does not parse is
\* skipped (continue), any other row assigns index[key] = offset.
IndexRow(m, line) ==
    IF ParseIntOk(line[2]) THEN MapPut(m, line[1], ParseIntValue(line[2])) ELSE m

RECURSIVE ReadIndex(_, _, _)
ReadIndex(rows, i, m) ==
    IF i > Len(rows) THEN m ELSE ReadIndex(rows, i + 1, IndexRow(m, rows[i]))

BuildIndex(rows) == ReadIndex(rows, 1, EmptyMap)

\* ------------------------------------------------------------------------
\* Values
\* ------------------------------------------------------------------------
NilRow == <<>>            \* a nil []string
NilHandle == -1           \* a nil *os.File; a handle is its file position
ErrNil == "nil"
TooManyConcurrentHandlesError == "too many concurrent handles"
InvalidHandleError == "invalid handle"
KeyTooShortForIndex == "provided key too short for index"
SeekError == "seek: invalid argument"
ReadError == "read: input/output error"
Panic == "panic"

VARIABLES
    data,                   \* the records of the data CSV file
    indexCsv,               \* the rows of the index CSV file
    index,                  \* FileIndex.index
    indexKeyLength,         \* FileIndex.indexKeyLength
    concurrentHandleLimit,  \* FileIndex.concurrentHandleLimit
    warmUpCount,            \* FileIndex.warmUpCount
    openHandleCount,        \* FileIndex.openHandleCount
    pool,                   \* FileIndex.pool: the bag of idle handles
    caller,                 \* each goroutine's call: position and locals
    raced,                  \* history: two admission checks overlapped
    createFailed            \* history: pool.New failed to open the data file

vars == <<data, indexCsv, index, indexKeyLength, concurrentHandleLimit, warmUpCount,
          openHandleCount, pool, caller, raced, createFailed>>

config == <<data, indexCsv, index, indexKeyLength, concurrentHandleLimit, warmUpCount>>

\* ------------------------------------------------------------------------
\* The scans of GetRow and GetRowsByPartialKey, from file position pos.
\* csvReader.Read returns io.EOF at the end of the file; the faultAt-th
\* record's Read (0: none) returns another error and a line without a
\* field, and line[0] then panics.
\* ------------------------------------------------------------------------
\* Mutant of OutOfRegion: no record ends the region.
OutOfRegionNever(field, indexKey, n) == FALSE

\* key != indexKey, where key := line[0][:f.indexKeyLength]
OutOfRegion(field, indexKey, n) == Slice(field, n) # indexKey

\* Mutant of ExactMatch: the key is only a prefix of the field.
ExactMatchPrefix(field, rowKey) ==
    Len(field) >= Len(rowKey) /\ Slice(field, Len(rowKey)) = rowKey

\* line[0] == rowKey
ExactMatch(field, rowKey) == field = rowKey

RECURSIVE GetRowScan(_, _, _, _, _, _)
GetRowScan(file, pos, indexKey, rowKey, n, faultAt) ==
    IF pos + 1 = faultAt THEN [row |-> NilRow, err |-> Panic]
    ELSE IF pos >= Len(file) THEN [row |-> NilRow, err |-> ErrNil]
    ELSE LET line == file[pos + 1] IN
         IF Len(line[1]) < n
         THEN GetRowScan(file, pos + 1, indexKey, rowKey, n, faultAt)
         ELSE IF OutOfRegion(line[1], indexKey, n) THEN [row |-> NilRow, err |-> ErrNil]
         ELSE IF ExactMatch(line[1], rowKey) THEN [row |-> line, err |-> ErrNil]
         ELSE GetRowScan(file, pos + 1, indexKey, rowKey, n, faultAt)

\* Mutant of Matches: equality in place of Contains.
MatchesWhole(field, rowKey) == ToLower(field) = ToLower(rowKey)

\* strings.Contains(strings.ToLower(line[0]), strings.ToLower(rowKey))
Matches(field, rowKey) == Contains(ToLower(field), ToLower(rowKey))

\* Mutant of LimitReached: -1 is a limit like any other.
LimitReachedAlways(rows, limit) == Len(rows) >= limit

\* len(rows) >= limit && limit != -1
LimitReached(rows, limit) == Len(rows) >= limit /\ limit # -1

RECURSIVE PartialScan(_, _, _, _, _, _, _, _)
PartialScan(file, pos, indexKey, rowKey, n, limit, rows, faultAt) ==
    IF pos + 1 = faultAt THEN [rows |-> <<>>, err |-> Panic]
    ELSE IF pos >= Len(file) THEN [rows |-> rows, err |-> ErrNil]
    ELSE LET line == file[pos + 1] IN
         IF Len(line[1]) < n
         THEN PartialScan(file, pos + 1, indexKey, rowKey, n, limit, rows, faultAt)
         ELSE IF OutOfRegion(line[1], indexKey, n) THEN [rows |-> rows, err |-> ErrNil]
         ELSE IF Matches(line[1], rowKey)
         THEN IF LimitReached(Append(rows, line), limit)
              THEN [rows |-> Append(rows, line), err |-> ErrNil]
              ELSE PartialScan(file, pos + 1, indexKey, rowKey, n, limit,
                               Append(rows, line), faultAt)
         ELSE PartialScan(file, pos + 1, indexKey, rowKey, n, limit, rows, faultAt)

\* ------------------------------------------------------------------------
\* Calls.  caller[c].pc is the goroutine's position:
\*   idle  no call in progress          load  acquireHandle: LoadInt32, compare
\*   add   acquireHandle: AddInt32 +1   get   acquireHandle: pool.Get
\*   scan  Seek and the read loop       dec   releaseHandle: AddInt32 -1
\*   put   releaseHandle: pool.Put      done  the call has returned
\* pre, released, fault and from are history: the outstanding count when
\* the call started, the number of releaseHandle calls it completed, what
\* failed under it ("open": pool.New, "read": csvReader.Read), and the file
\* position at which a lookup was given its handle, kept until it calls
\* releaseHandle.
\* ------------------------------------------------------------------------
IdleCaller ==
    [pc |-> "idle", op |-> "none", rowKey |-> <<>>, limit |-> 0, offset |-> 0,
     handle |-> NilHandle, handles |-> <<>>, row |-> NilRow,
     rows |-> <<>>, err |-> ErrNil, pre |-> 0, released |-> 0, fault |-> "none",
     from |-> NilHandle]

Lookups == {"GetRow", "GetRowsByPartialKey"}

\* Mutant of TooShort: a key of exactly the prefix length is refused too.
TooShortOrEqual(rowKey) == Len(rowKey) <= indexKeyLength

\* len(rowKey) < f.indexKeyLength
TooShort(rowKey) == Len(rowKey) < indexKeyLength

\* Mutant of Missed: the admission test is made before the index is asked.
MissedAfterAdmission(call) ==
    IF openHandleCount > concurrentHandleLimit
    THEN [call EXCEPT !.pc = "done", !.err = TooManyConcurrentHandlesError]
    ELSE [call EXCEPT !.pc = "done"]

\* !ok: the prefix is not in the index, and the lookup returns at once, a
\* nil result and no error.
Missed(call) == [call EXCEPT !.pc = "done"]

\* The head of GetRow and of GetRowsByPartialKey: the length check, the
\* index lookup, and the call of acquireHandle.
Lookup(c, op, rowKey, limit) ==
    /\ caller[c].pc = "idle"
    /\ LET call == [IdleCaller EXCEPT !.op = op, !.rowKey = rowKey, !.limit = limit,
                                      !.pre = openHandleCount]
       IN  caller' = [caller EXCEPT ![c] =
              IF TooShort(rowKey)
              THEN [call EXCEPT !.pc = "done", !.err = KeyTooShortForIndex]
              ELSE IF Slice(rowKey, indexKeyLength) \notin DOMAIN index
              THEN Missed(call)
              ELSE [call EXCEPT !.pc = "load",
                                !.offset = index[Slice(rowKey, indexKeyLength)]]]
    /\ UNCHANGED <<config, openHandleCount, pool, raced, createFailed>>

GetRow(c, rowKey) == Lookup(c, "GetRow", rowKey, 0)

GetRowsByPartialKey(c, rowKey, limit) == Lookup(c, "GetRowsByPartialKey", rowKey, limit)

\* WarmUp: the acquisition loop starts, or there is nothing to acquire.
WarmUp(c) ==
    /\ caller[c].pc = "idle"
    /\ caller' = [caller EXCEPT ![c] =
          [IdleCaller EXCEPT !.op = "WarmUp", !.pre = openHandleCount,
                             !.pc = IF 0 < warmUpCount THEN "load" ELSE "done"]]
    /\ UNCHANGED <<config, openHandleCount, pool, raced, createFailed>>

\* Mutants of Rejected: the comparison off by one, either way.
RejectedAtLimit(count) == count >= concurrentHandleLimit

RejectedPastLimit(count) == count > concurrentHandleLimit + 1

\* count > f.concurrentHandleLimit
Rejected(count) == count > concurrentHandleLimit

\* Mutant of AfterRejected: WarmUp releases what it holds before it returns.
AfterRejectedRollback(c) ==
    IF caller[c].op = "WarmUp" /\ Len(caller[c].handles) > 0 THEN "dec" ELSE "done"

\* What follows a rejection: GetRow, GetRowsByPartialKey and WarmUp alike
\* return the error at once.
AfterRejected(c) == "done"

\* acquireHandle, first step: load the count and compare it with the limit.
\* A rejected lookup returns the error; a rejected WarmUp returns it too,
\* without releasing the handles it holds.
AcquireLoad(c) ==
    /\ caller[c].pc = "load"
    /\ caller' = [caller EXCEPT ![c] =
          IF Rejected(openHandleCount)
          THEN [@ EXCEPT !.pc = AfterRejected(c), !.err = TooManyConcurrentHandlesError]
          ELSE [@ EXCEPT !.pc = "add"]]
    /\ raced' = (raced \/ (~Rejected(openHandleCount)
                           /\ \E d \in DOMAIN caller : d # c /\ caller[d].pc = "add"))
    /\ UNCHANGED <<config, openHandleCount, pool, createFailed>>

\* acquireHandle, second step: atomic.AddInt32(&f.openHandleCount, 1)
AcquireAdd(c) ==
    /\ caller[c].pc = "add"
    /\ openHandleCount' = openHandleCount + 1
    /\ caller' = [caller EXCEPT ![c].pc = "get"]
    /\ UNCHANGED <<config, pool, raced, createFailed>>

\* acquireHandle returns handle h: a lookup defers its release and goes on
\* to seek; WarmUp appends it, sleeps, and acquires the next or, after the
\* last, starts releasing.
Acquired(c, h) ==
    IF caller[c].op = "WarmUp"
    THEN [caller[c] EXCEPT !.handles = Append(@, h),
              !.pc = IF Len(caller[c].handles) + 1 < warmUpCount THEN "load" ELSE "dec"]
    ELSE [caller[c] EXCEPT !.handle = h, !.from = h, !.pc = "scan"]

\* pool.Get returns an idle handle, whichever it is.
AcquireGetIdle(c) ==
    /\ caller[c].pc = "get"
    /\ \E h \in BagToSet(pool) :
          /\ pool' = pool (-) SetToBag({h})
          /\ caller' = [caller EXCEPT ![c] = Acquired(c, h)]
    /\ UNCHANGED <<config, openHandleCount, raced, createFailed>>

\* pool.Get finds no idle handle (it may miss one that is there) and New
\* opens the data file: a fresh handle, at position 0.
AcquireGetNew(c) ==
    /\ caller[c].pc = "get"
    /\ BagCardinality(pool) < MaxIdle
    /\ caller' = [caller EXCEPT ![c] = Acquired(c, 0)]
    /\ UNCHANGED <<config, openHandleCount, pool, raced, createFailed>>

\* New cannot open the data file and returns a nil interface; the type
\* assertion .(*os.File) on it panics, so the call ends there, its count
\* not taken back.
AcquireGetFail(c) ==
    /\ caller[c].pc = "get"
    /\ BagCardinality(pool) < MaxIdle
    /\ caller' = [caller EXCEPT ![c] =
          [@ EXCEPT !.pc = "done", !.err = Panic, !.fault = "open"]]
    /\ createFailed' = TRUE
    /\ UNCHANGED <<config, openHandleCount, pool, raced>>

\* The position bufio leaves the handle at: the files of the model are
\* shorter than its 4096-byte buffer, so the first Read drains the file.
PosAfter(offset, faultAt) ==
    IF faultAt = offset + 1 \/ offset > Len(data) THEN offset ELSE Len(data)

\* Mutant of SeekStart: the offset is taken from the handle's position
\* (io.SeekCurrent).
SeekCurrent(h, offset) == h + offset

\* handle.Seek(offset, io.SeekStart): the position sought, from position h.
SeekStart(h, offset) == offset

\* Mutant of AfterSeekError: the error is returned with no release.
AfterSeekErrorLeak == "done"

\* What follows a failed Seek: the error is returned, and the deferred
\* releaseHandle runs.
AfterSeekError == "dec"

\* Mutant of AfterScan: the lookup returns with no release.
AfterScanLeak == "done"

\* What follows the read loop, however it ended: the function returns (or
\* panics), and the deferred releaseHandle runs.
AfterScan == "dec"

\* What a csvReader.Read that fails leaves in line, the error apart: no
\* field (line[0] panics), or one empty field (the record is passed over
\* as any other, the error dropped, and the loop reads on).
FailedReads == {"no field", "empty field"}

\* Seek to the indexed offset and scan.  A negative offset makes Seek fail;
\* faults are the reads that may fail (0: none does).
SeekScan(c, faults) ==
    /\ caller[c].pc = "scan"
    /\ LET me == caller[c]
           n == indexKeyLength
           indexKey == Slice(me.rowKey, n)
       IN  IF me.offset < 0
           THEN caller' = [caller EXCEPT ![c] =
                   [@ EXCEPT !.pc = AfterSeekError, !.err = SeekError]]
           ELSE \E faultAt \in faults :
                \E line \in IF faultAt = 0 THEN {"no field"} ELSE FailedReads :
                  LET pos == SeekStart(me.handle, me.offset)
                      failed ==
                          /\ faultAt # 0
                          /\ IF me.op = "GetRow"
                             THEN GetRowScan(data, pos, indexKey, me.rowKey, n,
                                             faultAt).err = Panic
                             ELSE PartialScan(data, pos, indexKey, me.rowKey, n, me.limit,
                                              <<>>, faultAt).err = Panic
                      at == IF line = "no field" THEN faultAt ELSE 0
                      g == GetRowScan(data, pos, indexKey, me.rowKey, n, at)
                      p == PartialScan(data, pos, indexKey, me.rowKey, n, me.limit,
                                       <<>>, at)
                      fault == IF failed THEN "read" ELSE "none"
                  IN  caller' = [caller EXCEPT ![c] =
                        IF me.op = "GetRow"
                        THEN [@ EXCEPT !.pc = AfterScan, !.row = g.row, !.err = g.err,
                                       !.handle = PosAfter(pos, at), !.fault = fault]
                        ELSE [@ EXCEPT !.pc = AfterScan, !.rows = p.rows, !.err = p.err,
                                       !.handle = PosAfter(pos, at), !.fault = fault]]
    /\ UNCHANGED <<config, openHandleCount, pool, raced, createFailed>>

\* The handle the pending releaseHandle call was given.
Releasing(c) ==
    IF caller[c].op = "WarmUp" THEN caller[c].handles[caller[c].released + 1]
    ELSE caller[c].handle

\* releaseHandle, first step: atomic.AddInt32(&f.openHandleCount, -1)
ReleaseDec(c) ==
    /\ caller[c].pc = "dec"
    /\ Releasing(c) # NilHandle
    /\ openHandleCount' = openHandleCount - 1
    /\ caller' = [caller EXCEPT ![c] = [@ EXCEPT !.pc = "put", !.from = NilHandle]]
    /\ UNCHANGED <<config, pool, raced, createFailed>>

\* releaseHandle, second step: f.pool.Put(handle).  WarmUp goes on to its
\* next handle; a lookup returns.
ReleasePut(c) ==
    /\ caller[c].pc = "put"
    /\ pool' = pool (+) SetToBag({Releasing(c)})
    /\ caller' = [caller EXCEPT ![c] =
          [@ EXCEPT !.released = @ + 1,
                    !.pc = IF caller[c].op = "WarmUp"
                              /\ caller[c].released + 1 < Len(caller[c].handles)
                           THEN "dec" ELSE "done"]]
    /\ UNCHANGED <<config, openHandleCount, raced, createFailed>>

\* The caller takes the result; the goroutine is free for its next call.
Return(c) ==
    /\ caller[c].pc = "done"
    /\ caller' = [caller EXCEPT ![c] = IdleCaller]
    /\ UNCHANGED <<config, openHandleCount, pool, raced, createFailed>>

\* sync.Pool drops an idle handle (garbage collection).
PoolDrop ==
    /\ \E h \in BagToSet(pool) : pool' = pool (-) SetToBag({h})
    /\ UNCHANGED <<config, openHandleCount, caller, raced, createFailed>>

\* ------------------------------------------------------------------------
\* Inputs
\* ------------------------------------------------------------------------
R_cat == <<S_cat, "1">>
R_cats == <<S_cats, "2">>
R_bat == <<S_bat, "3">>
R_ca == <<S_ca, "4">>

RecordSet == {R_cat, R_cats, R_bat, R_ca}

Files == UNION {[1..k -> RecordSet] : k \in 0..MaxRecords}

Queries == {S_cat, S_cats, S_CAT, S_at, S_bat, S_tab}

Limits == (-1)..MaxLimitArg

\* strconv.Itoa, as the index file's writer formats an offset
DigitChar(d) ==
    CASE d = 0 -> "0" [] d = 1 -> "1" [] d = 2 -> "2" [] d = 3 -> "3" [] d = 4 -> "4"
      [] d = 5 -> "5" [] d = 6 -> "6" [] d = 7 -> "7" [] d = 8 -> "8" [] d = 9 -> "9"

RECURSIVE Itoa(_)
Itoa(n) ==
    IF n < 0 THEN <<"-">> \o Itoa(0 - n)
    ELSE IF n < 10 THEN <<DigitChar(n)>>
    ELSE Itoa(n \div 10) \o <<DigitChar(n % 10)>>

\* Index files of at most one row, its prefix of the configured length.
IndexFiles(n) ==
    {<<>>} \cup {<< <<Slice(q, n), Itoa(o)>> >> :
                    q \in {k \in Queries : Len(k) >= n}, o \in 0..MaxOffset}

\* A data file and its index file, as a build step may have written them:
\* a row that a later one overwrites, a row whose offset is no number, a
\* negative offset, and (where the prefix is short enough) a row for "at".
SampleData == <<R_cat, R_cats, R_bat>>

SampleIndexCsv(n) ==
    << <<Slice(S_cat, n), Itoa(1)>>, <<Slice(S_bat, n), Itoa(2)>>,
       <<Slice(S_tab, n), <<"x">> >>, <<Slice(S_cat, n), Itoa(0)>>,
       <<Slice(S_CAT, n), Itoa(-1)>> >>
    \o (IF Len(S_at) >= n THEN << <<Slice(S_at, n), Itoa(0)>> >> ELSE <<>>)

\* Offset columns of an index file: integers as strconv writes them, with
\* or without a plus sign, and strings that are no integer.
SignedOffsets == {Itoa(o) : o \in (-1)..MaxOffset}

PlusOffsets == {<<"+">> \o Itoa(o) : o \in 0..MaxOffset}

BadOffsets == {<<"x">>, <<>>, <<"-">>}

IndexRows ==
    {<<k, o>> : k \in {S_cat, S_bat}, o \in SignedOffsets \cup PlusOffsets \cup BadOffsets}

\* Index files of at most MaxIndexRows rows, duplicates and bad rows included.
IndexInputs == UNION {[1..k -> IndexRows] : k \in 0..MaxIndexRows}

\* ------------------------------------------------------------------------
\* Specifications
\*   Spec      one caller, the sample files, every limit and warm-up count
\*   SpecScan  one caller, every data file and index file of the bounds
\*   SpecConc  NumCallers concurrent lookups on the sample files
\*   SpecIndex NewFileIndex on every index file of the bounds
\* ------------------------------------------------------------------------
\* The state NewFileIndex returns: the index read, no handle open.
Constructed(callers) ==
    /\ index = BuildIndex(indexCsv)
    /\ openHandleCount = 0
    /\ pool = EmptyBag
    /\ caller = [c \in callers |-> IdleCaller]
    /\ raced = FALSE
    /\ createFailed = FALSE

\* One caller; the sample files; every handle limit and warm-up count.
Init ==
    /\ data = SampleData
    /\ indexKeyLength \in Len(S_at)..Len(S_cat)
    /\ indexCsv = SampleIndexCsv(indexKeyLength)
    /\ concurrentHandleLimit \in 0..MaxHandleLimit
    /\ warmUpCount \in 0..MaxWarmUpCount
    /\ Constructed({1})

\* One caller; every data file and index file of the bounds.
InitScan ==
    /\ data \in Files
    /\ indexKeyLength \in 0..MaxKeyLength
    /\ indexCsv \in IndexFiles(indexKeyLength)
    /\ concurrentHandleLimit = 0
    /\ warmUpCount = 0
    /\ Constructed({1})

\* Concurrent callers on the sample files.
InitConc ==
    /\ data = SampleData
    /\ indexKeyLength = Len(S_cat)
    /\ indexCsv = SampleIndexCsv(indexKeyLength)
    /\ concurrentHandleLimit \in 0..MaxHandleLimit
    /\ warmUpCount = 0
    /\ Constructed(1..NumCallers)

\* Before NewFileIndex: the files are written, and there is no FileIndex
\* yet, hence no caller of one.
InitIndex ==
    /\ data = SampleData
    /\ indexKeyLength = Len(S_cat)
    /\ indexCsv \in IndexInputs
    /\ concurrentHandleLimit = 0
    /\ warmUpCount = 0
    /\ index = EmptyMap
    /\ openHandleCount = 0
    /\ pool = EmptyBag
    /\ caller = [c \in {} |-> IdleCaller]
    /\ raced = FALSE
    /\ createFailed = FALSE

\* NewFileIndex: the index file is read into the map, row after row, and
\* the FileIndex is returned to its caller.
NewFileIndex ==
    /\ DOMAIN caller = {}
    /\ index' = BuildIndex(indexCsv)
    /\ caller' = [c \in {1} |-> IdleCaller]
    /\ UNCHANGED <<data, indexCsv, indexKeyLength, concurrentHandleLimit, warmUpCount,
                   openHandleCount, pool, raced, createFailed>>

NextIndex == NewFileIndex

Next ==
    \/ \E c \in DOMAIN caller, rowKey \in Queries : GetRow(c, rowKey)
    \/ \E c \in DOMAIN caller, rowKey \in Queries, limit \in Limits :
          GetRowsByPartialKey(c, rowKey, limit)
    \/ \E c \in DOMAIN caller : WarmUp(c)
    \/ \E c \in DOMAIN caller : AcquireLoad(c)
    \/ \E c \in DOMAIN caller : AcquireAdd(c)
    \/ \E c \in DOMAIN caller : AcquireGetIdle(c)
    \/ \E c \in DOMAIN caller : AcquireGetNew(c)
    \/ \E c \in DOMAIN caller : AcquireGetFail(c)
    \/ \E c \in DOMAIN caller : SeekScan(c, 0..(Len(data) + 1))
    \/ \E c \in DOMAIN caller : ReleaseDec(c)
    \/ \E c \in DOMAIN caller : ReleasePut(c)
    \/ \E c \in DOMAIN caller : Return(c)
    \/ PoolDrop

\* Concurrent callers: lookups of one key, without a limit, while the data
\* file opens and reads without a fault.
NextConc ==
    \/ \E c \in DOMAIN caller : GetRow(c, S_cat)
    \/ \E c \in DOMAIN caller : GetRowsByPartialKey(c, S_cat, -1)
    \/ \E c \in DOMAIN caller : AcquireLoad(c)
    \/ \E c \in DOMAIN caller : AcquireAdd(c)
    \/ \E c \in DOMAIN caller : AcquireGetIdle(c)
    \/ \E c \in DOMAIN caller : AcquireGetNew(c)
    \/ \E c \in DOMAIN caller : SeekScan(c, {0})
    \/ \E c \in DOMAIN caller : ReleaseDec(c)
    \/ \E c \in DOMAIN caller : ReleasePut(c)
    \/ \E c \in DOMAIN caller : Return(c)
    \/ PoolDrop

Spec == Init /\ [][Next]_vars

SpecScan == InitScan /\ [][Next]_vars

SpecConc == InitConc /\ [][NextConc]_vars

SpecIndex == InitIndex /\ [][NextIndex]_vars

\* ------------------------------------------------------------------------
\* Properties
\* ------------------------------------------------------------------------
Done(c, op) == caller[c].pc = "done" /\ caller[c].op = op

\* The call acquired a handle, sought and read without an error.
Scanned(c) == caller[c].handle # NilHandle /\ caller[c].err = ErrNil

AllIdle == \A c \in DOMAIN caller : caller[c].pc = "idle"

\* The same-prefix region that starts at record off + 1, stated without a
\* scan: it ends before the first record that is long enough to have a
\* prefix and whose prefix differs; shorter records are not part of it.
RegionEnd(file, off, indexKey, n) ==
    LET other == {j \in (off + 1)..Len(file) :
                     Len(file[j][1]) >= n /\ Slice(file[j][1], n) # indexKey}
    IN  IF other = {} THEN Len(file) + 1
        ELSE CHOOSE j \in other : \A k \in other : j <= k

Region(file, off, indexKey, n) ==
    {j \in (off + 1)..(RegionEnd(file, off, indexKey, n) - 1) : Len(file[j][1]) >= n}

\* C1: with a single caller and no failure to open a handle, the
\* outstanding-handle count never exceeds the configured limit.
\* (The statement of the claim; the code admits one handle more.)
C1_CountWithinLimit == createFailed \/ openHandleCount <= concurrentHandleLimit

\* C2: a GetRow that acquired its handle and read without an I/O error
\* returns, without an error, the first record of the region indexed for
\* the key's prefix whose first field is the key, and nil if there is none.
C2_Reference(c) ==
    LET n == indexKeyLength
        hits == {j \in Region(data, caller[c].offset, Slice(caller[c].rowKey, n), n) :
                    data[j][1] = caller[c].rowKey}
    IN  IF hits = {} THEN NilRow ELSE data[CHOOSE j \in hits : \A k \in hits : j <= k]

C2_GetRowAgreesWithReference ==
    \A c \in DOMAIN caller :
        (Done(c, "GetRow") /\ caller[c].handle # NilHandle /\ caller[c].offset >= 0
           /\ caller[c].err # Panic)
        => (caller[c].err = ErrNil /\ caller[c].row = C2_Reference(c))

\* C2 witness: a GetRow returned a row that is not the first record it read.
C2_Witness ==
    \E c \in DOMAIN caller :
        /\ Done(c, "GetRow") /\ Scanned(c)
        /\ caller[c].row # NilRow
        /\ caller[c].row # data[caller[c].offset + 1]

\* The record cat,1 lies in the region indexed for its own prefix.
CatIndexed ==
    /\ Slice(S_cat, indexKeyLength) \in DOMAIN index
    /\ index[Slice(S_cat, indexKeyLength)] >= 0
    /\ \E j \in Region(data, index[Slice(S_cat, indexKeyLength)],
                       Slice(S_cat, indexKeyLength), indexKeyLength) : data[j] = R_cat

\* C3: with a prefix length of at least 1 and the record cat,1 in an indexed
\* region, GetRowsByPartialKey("CAT", -1) returns that record.
\* (The statement of the claim; the code compares prefixes case-sensitively.)
C3_UpperCaseQueryMatches ==
    \A c \in DOMAIN caller :
        (Done(c, "GetRowsByPartialKey") /\ caller[c].rowKey = S_CAT /\ caller[c].limit = -1
           /\ caller[c].err = ErrNil
           /\ indexKeyLength >= 1 /\ indexKeyLength <= Len(S_cat) /\ CatIndexed)
        => \E i \in 1..Len(caller[c].rows) : caller[c].rows[i] = R_cat

\* The scenario of C4: the region indexed for the prefix of "cat" holds
\* cat,1 and cats,2 in this order, and bat,3 lies outside it.
C4_Scenario ==
    /\ CatIndexed
    /\ LET off == index[Slice(S_cat, indexKeyLength)]
       IN  /\ Region(data, off, Slice(S_cat, indexKeyLength), indexKeyLength)
                = {off + 1, off + 2}
           /\ data[off + 1] = R_cat /\ data[off + 2] = R_cats
           /\ \E j \in 1..Len(data) : j \notin {off + 1, off + 2} /\ data[j] = R_bat

\* C4 as claimed: the query "at", once it has scanned, returns cat,1 and
\* cats,2, and only cat,1 under limit 1.
C4_QueryAtFindsCats ==
    \A c \in DOMAIN caller :
        (Done(c, "GetRowsByPartialKey") /\ caller[c].rowKey = S_at /\ Scanned(c)
           /\ C4_Scenario)
        => /\ caller[c].limit = -1 => caller[c].rows = <<R_cat, R_cats>>
           /\ caller[c].limit = 1 => caller[c].rows = <<R_cat>>

\* C4 amended: the match is a contains-match among the records that share
\* the query's own first indexKeyLength characters.  In the scenario the
\* query "cat" returns cat,1 and cats,2 in file order, and only cat,1 under
\* limit 1; the query "at", whose prefix is not that of the region, returns
\* no row.
C4_QueryCatFindsCats ==
    \A c \in DOMAIN caller :
        (Done(c, "GetRowsByPartialKey") /\ Scanned(c) /\ C4_Scenario)
        => /\ (caller[c].rowKey = S_cat /\ caller[c].limit = -1)
                 => caller[c].rows = <<R_cat, R_cats>>
           /\ (caller[c].rowKey = S_cat /\ caller[c].limit = 1)
                 => caller[c].rows = <<R_cat>>
           /\ caller[c].rowKey = S_at => caller[c].rows = <<>>

\* C4 witness: the query "cat", without a limit, returned both records.
C4_Witness ==
    \E c \in DOMAIN caller :
        /\ Done(c, "GetRowsByPartialKey") /\ Scanned(c) /\ C4_Scenario
        /\ caller[c].rowKey = S_cat /\ caller[c].limit = -1
        /\ caller[c].rows = <<R_cat, R_cats>>

\* C5: a GetRowsByPartialKey with a limit other than -1 returns at most
\* limit rows.  (The statement of the claim; the code tests the limit only
\* after it has appended a row.)
C5_AtMostLimitRows ==
    \A c \in DOMAIN caller :
        (Done(c, "GetRowsByPartialKey") /\ caller[c].err = ErrNil /\ caller[c].limit # -1)
        => Len(caller[c].rows) <= caller[c].limit

\* C6: a lookup that acquired a handle has released it exactly once when
\* it returns, whichever way it left the scan, and the outstanding count is
\* then what it was when the call started.
C6_LookupReleasesOnce ==
    \A c \in DOMAIN caller :
        (caller[c].pc = "done" /\ caller[c].op \in Lookups /\ caller[c].handle # NilHandle)
        => (caller[c].released = 1 /\ openHandleCount = caller[c].pre)

\* C6 witness: a lookup whose Seek failed has returned, its handle released.
C6_Witness ==
    \E c \in DOMAIN caller :
        /\ caller[c].pc = "done" /\ caller[c].op \in Lookups
        /\ caller[c].err = SeekError /\ caller[c].released = 1

\* C7: the outstanding count exceeds the most a single caller can reach
\* (the limit plus one) only after two callers' admission checks overlapped:
\* one passed the check while another had passed it and not yet incremented.
C7_ExcessOnlyByRace == openHandleCount > concurrentHandleLimit + 1 => raced

\* C7 witness: more callers hold a handle at once than the limit plus one,
\* with no failure to open a handle.
C7_Witness ==
    /\ ~createFailed
    /\ openHandleCount > concurrentHandleLimit + 1
    /\ Cardinality({c \in DOMAIN caller : caller[c].pc \in {"scan", "dec"}})
          > concurrentHandleLimit + 1

\* C8: with a single caller, acquireHandle fails exactly when the count is
\* above the limit, and then changes neither the count nor the idle
\* handles; otherwise it goes on and increments the count by one.
C8_AdmissionExact ==
    [][\A c \in DOMAIN caller :
         /\ (caller[c].pc = "load" /\ caller'[c].pc # "load")
            => IF openHandleCount > concurrentHandleLimit
               THEN /\ caller'[c].pc = "done"
                    /\ caller'[c].err = TooManyConcurrentHandlesError
                    /\ openHandleCount' = openHandleCount
                    /\ pool' = pool
               ELSE /\ caller'[c].pc = "add"
                    /\ caller'[c].err = ErrNil
         /\ (caller[c].pc = "add" /\ caller'[c].pc # "add")
            => /\ caller'[c].pc = "get"
               /\ caller'[c].err = ErrNil
               /\ openHandleCount' = openHandleCount + 1]_vars

\* C8 witness: a lookup was rejected.
C8_Witness ==
    \E c \in DOMAIN caller :
        /\ caller[c].pc = "done" /\ caller[c].op \in Lookups
        /\ caller[c].err = TooManyConcurrentHandlesError
        /\ caller[c].pre > concurrentHandleLimit
        /\ openHandleCount = caller[c].pre

\* C9: once every call has returned, and no handle failed to open, the
\* count is back at or below the limit, so that a retried GetRow is
\* admitted.  (The statement of the claim; a WarmUp that was rejected has
\* kept its handles, and nothing releases them.)
C9_RetryAdmitted ==
    (AllIdle /\ ~createFailed) => openHandleCount <= concurrentHandleLimit

\* C10: a WarmUp that returns the admission error has released nothing:
\* the count is still raised by the handles it acquired before the rejected
\* acquisition, as many as the limit let it take.
C10_WarmUpAbortKeepsHandles ==
    \A c \in DOMAIN caller :
        (Done(c, "WarmUp") /\ caller[c].err = TooManyConcurrentHandlesError)
        => /\ caller[c].released = 0
           /\ Len(caller[c].handles) < warmUpCount
           /\ openHandleCount = caller[c].pre + Len(caller[c].handles)
           /\ Len(caller[c].handles) =
                 IF caller[c].pre > concurrentHandleLimit THEN 0
                 ELSE concurrentHandleLimit + 1 - caller[c].pre

\* C10 witness: a WarmUp was rejected while it held a handle.
C10_Witness ==
    \E c \in DOMAIN caller :
        /\ Done(c, "WarmUp") /\ caller[c].err = TooManyConcurrentHandlesError
        /\ Len(caller[c].handles) >= 1

\* C11: a WarmUp that returns without an error leaves at least warmUpCount
\* idle handles in the pool, with the outstanding count back at its value
\* before the call.  (The statement of the claim; sync.Pool may drop a
\* handle that was put back, and does not promise to hand back an idle one.)
C11_WarmUpLeavesIdleHandles ==
    \A c \in DOMAIN caller :
        (Done(c, "WarmUp") /\ caller[c].err = ErrNil)
        => /\ caller[c].released = warmUpCount
           /\ openHandleCount = caller[c].pre
           /\ BagCardinality(pool) >= warmUpCount

\* A step that starts a lookup by caller c.
Calls(c) == caller[c].pc = "idle" /\ caller'[c].pc # "idle" /\ caller'[c].op \in Lookups

\* C12: a lookup returns the key-too-short error exactly when its key is
\* shorter than indexKeyLength, and then it returns at once: no result, no
\* handle acquired, the outstanding count and the idle handles unchanged.
C12_ShortKeyRefused ==
    [][\A c \in DOMAIN caller :
         Calls(c) =>
           /\ (caller'[c].err = KeyTooShortForIndex)
                 <=> (Len(caller'[c].rowKey) < indexKeyLength)
           /\ (Len(caller'[c].rowKey) < indexKeyLength)
                 => /\ caller'[c].pc = "done"
                    /\ caller'[c].row = NilRow /\ caller'[c].rows = <<>>
                    /\ caller'[c].handle = NilHandle
                    /\ openHandleCount' = openHandleCount
                    /\ pool' = pool]_vars

\* C12 witness: a key shorter than the prefix was refused while an idle
\* handle lay in the pool.
C12_Witness ==
    \E c \in DOMAIN caller :
        /\ caller[c].pc = "done" /\ caller[c].op \in Lookups
        /\ Len(caller[c].rowKey) < indexKeyLength
        /\ caller[c].err = KeyTooShortForIndex
        /\ BagCardinality(pool) > 0
        /\ openHandleCount = caller[c].pre

\* C13: a lookup whose key is long enough and whose prefix is not in the
\* index returns at once, a nil or empty result and no error, whatever the
\* outstanding count is: no handle acquired, the count and the idle handles
\* unchanged.
C13_AbsentPrefixReturnsNil ==
    [][\A c \in DOMAIN caller :
         (/\ Calls(c)
          /\ Len(caller'[c].rowKey) >= indexKeyLength
          /\ Slice(caller'[c].rowKey, indexKeyLength) \notin DOMAIN index)
         => /\ caller'[c].pc = "done"
            /\ caller'[c].err = ErrNil
            /\ caller'[c].row = NilRow /\ caller'[c].rows = <<>>
            /\ caller'[c].handle = NilHandle
            /\ openHandleCount' = openHandleCount
            /\ pool' = pool]_vars

\* C13 witness: a lookup of an absent prefix returned nil while the count
\* was above the limit, where an acquisition is refused.
C13_Witness ==
    \E c \in DOMAIN caller :
        /\ caller[c].pc = "done" /\ caller[c].op \in Lookups
        /\ Len(caller[c].rowKey) >= indexKeyLength
        /\ Slice(caller[c].rowKey, indexKeyLength) \notin DOMAIN index
        /\ caller[c].err = ErrNil /\ caller[c].handle = NilHandle
        /\ openHandleCount > concurrentHandleLimit
        /\ openHandleCount = caller[c].pre

\* C14: a lookup under which a Read failed with an error other than io.EOF
\* returns that error.  (The statement of the claim; the code tests the
\* error for io.EOF only, and then either indexes a line without fields,
\* which panics, or goes on with the line it was given.)
C14_ReadErrorReturned ==
    \A c \in DOMAIN caller :
        (caller[c].op \in Lookups /\ caller[c].pc \in {"dec", "put", "done"}
           /\ caller[c].fault = "read")
        => (caller[c].err = ReadError /\ caller[c].row = NilRow /\ caller[c].rows = <<>>)

\* C15: a call under which pool.New failed to open the data file returns
\* the invalid-handle error, the outstanding count left incremented and
\* nothing released.  (The statement of the claim; the type assertion on
\* the nil that New returned panics before the nil test is reached.)
C15_OpenFailureReturnsInvalidHandle ==
    \A c \in DOMAIN caller :
        (caller[c].pc = "done" /\ caller[c].fault = "open")
        => /\ caller[c].err = InvalidHandleError
           /\ caller[c].released = 0
           /\ openHandleCount = caller[c].pre + Len(caller[c].handles) + 1

\* The rows of the index file whose offset column is a decimal integer, and
\* the integer it denotes, stated without the parser.
IntegerRows(rows) ==
    {i \in 1..Len(rows) : rows[i][2] \in SignedOffsets \cup PlusOffsets}

Denoted(str) ==
    CHOOSE o \in (-1)..MaxOffset : str = Itoa(o) \/ str = <<"+">> \o Itoa(o)

LastRow(rows, k) ==
    CHOOSE i \in IntegerRows(rows) :
        /\ rows[i][1] = k
        /\ \A j \in IntegerRows(rows) : rows[j][1] = k => j <= i

\* C16: the index NewFileIndex builds has an entry for exactly the prefixes
\* of the rows whose offset column is a decimal integer, and the entry of a
\* prefix is the offset of the last such row; the other rows change nothing.
C16_IndexIsFoldOfRows ==
    DOMAIN caller # {}
    => /\ DOMAIN index = {indexCsv[i][1] : i \in IntegerRows(indexCsv)}
       /\ \A k \in DOMAIN index :
             index[k] = Denoted(indexCsv[LastRow(indexCsv, k)][2])

\* C16 witness: an index was built from a file in which a prefix has two
\* integer rows of different offsets and then a row that is no integer; the
\* entry is the second row's offset.
C16_Witness ==
    /\ DOMAIN caller # {}
    /\ Len(indexCsv) = 3
    /\ indexCsv[1][1] = indexCsv[2][1] /\ indexCsv[2][1] = indexCsv[3][1]
    /\ {1, 2} = IntegerRows(indexCsv)
    /\ Denoted(indexCsv[1][2]) # Denoted(indexCsv[2][2])
    /\ index[indexCsv[1][1]] = Denoted(indexCsv[2][2])

\* The i-th smallest element of a set of positions.
Nth(S, i) == CHOOSE j \in S : Cardinality({k \in S : k <= j}) = i

\* The records of the region indexed for the prefix of c's key whose first
\* field contains the key, letter case apart, in file order.
C17_Reference(c) ==
    LET n == indexKeyLength
        hits == {j \in Region(data, caller[c].offset, Slice(caller[c].rowKey, n), n) :
                    Contains(ToLower(data[j][1]), ToLower(caller[c].rowKey))}
    IN  [i \in 1..Cardinality(hits) |-> data[Nth(hits, i)]]

\* C17: the rows a GetRowsByPartialKey returns are records of the region
\* indexed for the prefix of its key: each has that prefix, and together
\* they are the first matching records of the region, in file order, all
\* of them when the limit is -1.  No record before the indexed offset or
\* from the first record of another prefix on is returned, and a record too
\* short to have a prefix does not end the region.
C17_PartialRowsInsideRegion ==
    \A c \in DOMAIN caller :
        (Done(c, "GetRowsByPartialKey") /\ Scanned(c) /\ caller[c].offset >= 0)
        => LET rows == caller[c].rows
               ref == C17_Reference(c)
           IN  /\ \A i \in 1..Len(rows) :
                     /\ Len(rows[i][1]) >= indexKeyLength
                     /\ Slice(rows[i][1], indexKeyLength)
                           = Slice(caller[c].rowKey, indexKeyLength)
               /\ Len(rows) <= Len(ref)
               /\ rows = SubSeq(ref, 1, Len(rows))
               /\ caller[c].limit = -1 => rows = ref

\* C17 witness: a returned row follows, in the region, a record too short
\* to have a prefix.
C17_Witness ==
    \E c \in DOMAIN caller :
        /\ Done(c, "GetRowsByPartialKey") /\ Scanned(c) /\ caller[c].offset >= 0
        /\ Len(caller[c].rows) >= 1
        /\ \E j \in (caller[c].offset + 1)..Len(data), k \in 1..Len(data) :
              /\ j < k
              /\ Len(data[j][1]) < indexKeyLength
              /\ data[k] = caller[c].rows[1]
              /\ \A m \in 1..Len(data) : data[m] = data[k] => m = k

\* The callers that have incremented the count in acquireHandle and have
\* not yet decremented it in releaseHandle.
Holders == {c \in DOMAIN caller : caller[c].pc \in {"get", "scan", "dec"}}

\* C18: with concurrent lookups and no failure to open a handle, the
\* outstanding count is the number of callers between the increment of
\* acquireHandle and the decrement of releaseHandle; it is never negative,
\* and it is 0 when no lookup is in progress.
C18_CountIsHolders ==
    /\ openHandleCount = Cardinality(Holders)
    /\ openHandleCount >= 0
    /\ (\A c \in DOMAIN caller : caller[c].pc \in {"idle", "done"}) => openHandleCount = 0

\* C18 witness: two callers hold a handle at once, a GetRow about to scan
\* and a GetRowsByPartialKey about to release.
C18_Witness ==
    /\ openHandleCount = 2
    /\ \E c, d \in DOMAIN caller :
          /\ c # d
          /\ caller[c].pc = "scan" /\ caller[d].pc = "dec"
          /\ caller[c].op = "GetRow" /\ caller[d].op = "GetRowsByPartialKey"

\* What GetRowsByPartialKey(rowKey, -1) returns on the files of the state,
\* once admitted and with no read failing.
C19_PartialRows(rowKey) ==
    LET n == indexKeyLength
    IN  IF TooShort(rowKey) \/ Slice(rowKey, n) \notin DOMAIN index
        THEN <<>>
        ELSE IF index[Slice(rowKey, n)] < 0 THEN <<>>
        ELSE PartialScan(data, SeekStart(0, index[Slice(rowKey, n)]), Slice(rowKey, n),
                         rowKey, n, -1, <<>>, 0).rows

\* C19: a row that GetRow returns for a key is among the rows that
\* GetRowsByPartialKey returns for the same key, without a limit, on the
\* same files.
C19_GetRowAmongPartialRows ==
    \A c \in DOMAIN caller :
        (Done(c, "GetRow") /\ Scanned(c) /\ caller[c].row # NilRow)
        => \E i \in 1..Len(C19_PartialRows(caller[c].rowKey)) :
              C19_PartialRows(caller[c].rowKey)[i] = caller[c].row

\* C19 witness: GetRow returned a row that is not the first of the rows the
\* partial lookup returns for the key.
C19_Witness ==
    \E c \in DOMAIN caller :
        /\ Done(c, "GetRow") /\ Scanned(c) /\ caller[c].row # NilRow
        /\ Len(C19_PartialRows(caller[c].rowKey)) >= 2
        /\ C19_PartialRows(caller[c].rowKey)[1] # caller[c].row
        /\ C19_PartialRows(caller[c].rowKey)[2] = caller[c].row

\* What a lookup returns as a function of its key, its limit, the index and
\* the data file alone: for GetRow the first record of the region that is
\* the key; for GetRowsByPartialKey the matching records of the region, up
\* to the first at which the limit test holds.
C20_Rows(c) ==
    LET ref == C17_Reference(c)
        limit == caller[c].limit
        k == IF limit = -1 \/ limit >= Len(ref) THEN Len(ref)
             ELSE IF limit < 1 THEN 1 ELSE limit
    IN  SubSeq(ref, 1, k)

\* C20: the result of a lookup that sought and read without an error is
\* that function of key, limit, index and data file, whatever handle it
\* was given and wherever an earlier lookup had left that handle.
C20_ResultIndependentOfHandle ==
    \A c \in DOMAIN caller :
        (caller[c].op \in Lookups /\ caller[c].pc \in {"dec", "put", "done"}
           /\ Scanned(c) /\ caller[c].offset >= 0)
        => IF caller[c].op = "GetRow"
           THEN caller[c].row = C2_Reference(c)
           ELSE caller[c].rows = C20_Rows(c)

\* C20 witness: a lookup found its record through a handle that an earlier
\* lookup had left at another position than the start of the file or the
\* offset sought.
C20_Witness ==
    \E c \in DOMAIN caller :
        /\ caller[c].op \in Lookups /\ caller[c].pc = "dec" /\ Scanned(c)
        /\ caller[c].offset >= 0
        /\ caller[c].from \notin {NilHandle, 0, caller[c].offset}
        /\ (caller[c].row # NilRow \/ caller[c].rows # <<>>)

====
